---- MODULE Spec2Model ----
(***************************************************************************)
(* Model of scripts/update_flags.py and scripts/update_providers.py: the   *)
(* two one-shot scripts that fetch the rclone flag / provider schema and   *)
(* textually splice the missing keys into the per-language resource files. *)
(*                                                                         *)
(* A text is a sequence of characters, each a one-character string.  The   *)
(* two comment literals of format_new_key_block hold no brace, quote,      *)
(* comma or colon, so each is carried as ONE element of a text: every scan *)
(* of the code (rfind, the backward whitespace skip, the brace counter,    *)
(* the regular expression) steps over it like over any other ordinary      *)
(* character.  Index i of a text is Python index i-1; 0 is Python's -1.    *)
(***************************************************************************)
EXTENDS Integers, Sequences, FiniteSets, TLC

\* ------------------------------------------------------------------ text

\* the two comment literals written by format_new_key_block
START_MARKER == "/////////////////////////////////////// New Key start"
END_MARKER == "////////////////////////////////////// New key end"

\* format_new_key_block(key, val, indent=2) in update_flags.update_file
FLAGS_INDENT == 2

\* format_new_key_block(opt_name, val, indent=6) in update_providers.update_file
OPTION_INDENT == 6

\* str.strip() == "" for one character / the \s of module re
IsSpace(c) == c \in {" ", "\n", "\t", "\r"}

IsDigit(c) == c \in {"0", "1", "2", "3", "4", "5", "6", "7", "8", "9"}

Spaces(n) == [i \in 1..n |-> " "]

\* the first index at or after i that is no whitespace, Len(t)+1 if none
SkipWs(t, i) ==
    CHOOSE j \in i..(Len(t) + 1) :
        /\ j = Len(t) + 1 \/ ~IsSpace(t[j])
        /\ \A k \in i..(j - 1) : IsSpace(t[k])

\* the last index at or before i that is no whitespace, 0 if none
SkipWsBack(t, i) ==
    LET S == {j \in 1..i : ~IsSpace(t[j])} IN
    IF S = {} THEN 0 ELSE CHOOSE j \in S : \A k \in S : k <= j

\* str.rfind for a single character: 0 when absent
Rfind(t, c) ==
    LET S == {i \in 1..Len(t) : t[i] = c} IN
    IF S = {} THEN 0 ELSE CHOOSE i \in S : \A k \in S : k <= i

\* t holds the characters of p from index i on
MatchAt(t, i, p) ==
    /\ i >= 1
    /\ i + Len(p) - 1 <= Len(t)
    /\ \A k \in 1..Len(p) : t[i + k - 1] = p[k]

\* ------------------------------------------------------------- json.loads
\* The JSON subset read here: objects, arrays, strings with the escapes
\* \" \\ \/ \n \t, unsigned integers, and null.  A parsed value is a record
\* of one shape: kind, the keys and values of an object in document order
\* (the values of an array in vals), and the characters of a string in s.

Val(kind, keys, vals, s) == [kind |-> kind, keys |-> keys, vals |-> vals, s |-> s]
NoVal == Val("none", <<>>, <<>>, <<>>)
ParseFail == [ok |-> FALSE, next |-> 0, val |-> NoVal]
ParseOk(next, val) == [ok |-> TRUE, next |-> next, val |-> val]

\* the character an escape \c stands for, "" when \c is no escape
Unescape(c) ==
    IF c = "\"" THEN "\""
    ELSE IF c = "\\" THEN "\\"
    ELSE IF c = "/" THEN "/"
    ELSE IF c = "n" THEN "\n"
    ELSE IF c = "t" THEN "\t"
    ELSE ""

\* j is an escaped character of the string opened before index i:
\* an odd run of backslashes ends right before it
Escaped(t, i, j) ==
    LET run == CHOOSE n \in 0..(j - i) :
                   /\ \A k \in 1..n : t[j - k] = "\\"
                   /\ n = j - i \/ t[j - n - 1] # "\\"
    IN run % 2 = 1

\* py_scanstring: the index of the closing quote of the string whose body
\* starts at i, Len(t)+1 when the string is not terminated
StringEnd(t, i) ==
    CHOOSE j \in i..(Len(t) + 1) :
        /\ j = Len(t) + 1 \/ (t[j] = "\"" /\ ~Escaped(t, i, j))
        /\ \A k \in i..(j - 1) : ~(t[k] = "\"" /\ ~Escaped(t, i, k))

\* py_scanstring: character k of the body raw is legal when it is no control
\* character and every backslash starts a known escape
LegalChar(raw, k) ==
    IF Escaped(raw, 1, k) THEN Unescape(raw[k]) # ""
    ELSE IF raw[k] = "\\" THEN k < Len(raw)
    ELSE raw[k] \notin {"\n", "\t", "\r"}

\* py_scanstring: the character that index k of the body raw stands for
DecodeChar(raw, k) == IF Escaped(raw, 1, k) THEN Unescape(raw[k]) ELSE raw[k]

\* py_scanstring: the characters the body raw stands for, given the set keep
\* of its indices that are no escaping backslash
DecodeBody(raw, keep) ==
    [n \in 1..Cardinality(keep) |->
        DecodeChar(raw, CHOOSE k \in keep : Cardinality({m \in keep : m < k}) = n - 1)]

\* py_scanstring on the body raw, closed by the quote at index end
ScanBody(raw, end) ==
    IF \E k \in 1..Len(raw) : ~LegalChar(raw, k)
    THEN [ok |-> FALSE, next |-> 0, s |-> <<>>]
    ELSE [ok |-> TRUE, next |-> end + 1,
          s |-> DecodeBody(raw, {k \in 1..Len(raw) :
                                    Escaped(raw, 1, k) \/ raw[k] # "\\"})]

\* py_scanstring from index i, the first character after the opening quote
ScanStringTo(t, i, end) ==
    IF end > Len(t) THEN [ok |-> FALSE, next |-> 0, s |-> <<>>]
    ELSE ScanBody(SubSeq(t, i, end - 1), end)

ScanString(t, i) == ScanStringTo(t, i, StringEnd(t, i))

\* the first index at or after i that is no digit
SkipDigits(t, i) ==
    CHOOSE j \in i..(Len(t) + 1) :
        /\ j = Len(t) + 1 \/ ~IsDigit(t[j])
        /\ \A k \in i..(j - 1) : IsDigit(t[k])

\* scan_once on a string: the value of what py_scanstring returned
StringValue(r) ==
    IF r.ok THEN ParseOk(r.next, Val("str", <<>>, <<>>, r.s)) ELSE ParseFail

RECURSIVE ParseValue(_, _), ParseMembers(_, _, _, _), ParseElements(_, _, _)

\* JSONDecoder.scan_once at the first non-whitespace character from i0
ParseValue(t, i0) ==
    LET i == SkipWs(t, i0) IN
    IF i > Len(t) THEN ParseFail
    ELSE IF t[i] = "{" THEN
        LET j == SkipWs(t, i + 1) IN
        IF j <= Len(t) /\ t[j] = "}"
        THEN ParseOk(j + 1, Val("obj", <<>>, <<>>, <<>>))
        ELSE ParseMembers(t, j, <<>>, <<>>)
    ELSE IF t[i] = "[" THEN
        LET j == SkipWs(t, i + 1) IN
        IF j <= Len(t) /\ t[j] = "]"
        THEN ParseOk(j + 1, Val("arr", <<>>, <<>>, <<>>))
        ELSE ParseElements(t, j, <<>>)
    ELSE IF t[i] = "\"" THEN
        StringValue(ScanString(t, i + 1))
    ELSE IF IsDigit(t[i]) THEN
        ParseOk(SkipDigits(t, i), Val("num", <<>>, <<>>, <<>>))
    ELSE IF MatchAt(t, i, <<"n", "u", "l", "l">>) THEN
        ParseOk(i + 4, Val("null", <<>>, <<>>, <<>>))
    ELSE ParseFail

\* JSONObject: the members of an object from index i, the start of a key
ParseMembers(t, i, keys, vals) ==
    IF i > Len(t) \/ t[i] # "\"" THEN ParseFail
    ELSE
        LET k == ScanString(t, i + 1) IN
        IF ~k.ok THEN ParseFail
        ELSE
            LET c == SkipWs(t, k.next) IN
            IF c > Len(t) \/ t[c] # ":" THEN ParseFail
            ELSE
                LET v == ParseValue(t, c + 1) IN
                IF ~v.ok THEN ParseFail
                ELSE
                    LET e == SkipWs(t, v.next) IN
                    IF e > Len(t) THEN ParseFail
                    ELSE IF t[e] = "}" THEN
                        ParseOk(e + 1, Val("obj", Append(keys, k.s),
                                           Append(vals, v.val), <<>>))
                    ELSE IF t[e] = "," THEN
                        ParseMembers(t, SkipWs(t, e + 1), Append(keys, k.s),
                                     Append(vals, v.val))
                    ELSE ParseFail

\* JSONArray: the elements of an array from index i
ParseElements(t, i, vals) ==
    LET v == ParseValue(t, i) IN
    IF ~v.ok THEN ParseFail
    ELSE
        LET e == SkipWs(t, v.next) IN
        IF e > Len(t) THEN ParseFail
        ELSE IF t[e] = "]" THEN
            ParseOk(e + 1, Val("arr", <<>>, Append(vals, v.val), <<>>))
        ELSE IF t[e] = "," THEN ParseElements(t, e + 1, Append(vals, v.val))
        ELSE ParseFail

\* json.loads: one value r, then nothing but whitespace
WholeText(t, r) == IF r.ok /\ SkipWs(t, r.next) > Len(t) THEN r ELSE ParseFail

json_loads(t) == WholeText(t, ParseValue(t, 1))

\* ------------------------------------------------- Python values and json.dumps

\* the operand of `in` is a dict, a list or a str; anything else raises TypeError
IsIterable(v) == v.kind \in {"obj", "arr", "str"}

\* Python's `k in v` for a str k: dict key, list element, or substring of a str
In(k, v) ==
    IF v.kind = "obj" THEN \E i \in 1..Len(v.keys) : v.keys[i] = k
    ELSE IF v.kind = "arr"
    THEN \E i \in 1..Len(v.vals) : v.vals[i].kind = "str" /\ v.vals[i].s = k
    ELSE IF v.kind = "str"
    THEN \E i \in 1..(Len(v.s) - Len(k) + 1) : MatchAt(v.s, i, k)
    ELSE FALSE

\* v[k] for a str k is defined on a dict only (a repeated key keeps its last value)
IsDict(v) == v.kind = "obj"
Subscript(v, k) ==
    LET S == {i \in 1..Len(v.keys) : v.keys[i] = k}
    IN v.vals[CHOOSE i \in S : \A j \in S : j <= i]

\* json.dumps of one character of a str (ensure_ascii=False)
EscapeChar(c) ==
    IF c = "\"" THEN <<"\\", "\"">>
    ELSE IF c = "\\" THEN <<"\\", "\\">>
    ELSE IF c = "\n" THEN <<"\\", "n">>
    ELSE IF c = "\t" THEN <<"\\", "t">>
    ELSE <<c>>

RECURSIVE EscapeAll(_)
EscapeAll(s) == IF s = <<>> THEN <<>> ELSE EscapeChar(Head(s)) \o EscapeAll(Tail(s))

\* json.dumps of a str
JsonString(s) == <<"\"">> \o EscapeAll(s) \o <<"\"">>

\* json.dumps({key: {"title": .., "help": ..}}, indent=indent).splitlines()
JsonDumpsLines(key, value, indent) ==
    << <<"{">>,
       Spaces(indent) \o JsonString(key) \o <<":", " ", "{">>,
       Spaces(2 * indent) \o JsonString(<<"t", "i", "t", "l", "e">>) \o <<":", " ">>
           \o JsonString(value.title) \o <<",">>,
       Spaces(2 * indent) \o JsonString(<<"h", "e", "l", "p">>) \o <<":", " ">>
           \o JsonString(value.help),
       Spaces(indent) \o <<"}">>,
       <<"}">> >>

\* "\n".join(lines)
RECURSIVE JoinLines(_)
JoinLines(lines) ==
    IF lines = <<>> THEN <<>>
    ELSE IF Len(lines) = 1 THEN lines[1]
    ELSE lines[1] \o <<"\n">> \o JoinLines(Tail(lines))

\* "".join(blocks)
RECURSIVE JoinBlocks(_)
JoinBlocks(blocks) ==
    IF blocks = <<>> THEN <<>> ELSE Head(blocks) \o JoinBlocks(Tail(blocks))

IsLower(c) == c \in {"a", "b", "c", "d", "h", "x", "y", "z"}
IsUpper(c) == c \in {"A", "B", "C", "D", "H", "X", "Y", "Z"}
\* str.upper / str.lower on the letters of the model's alphabet
Upper(c) ==
    IF c = "a" THEN "A" ELSE IF c = "b" THEN "B" ELSE IF c = "c" THEN "C"
    ELSE IF c = "d" THEN "D" ELSE IF c = "h" THEN "H" ELSE IF c = "x" THEN "X"
    ELSE IF c = "y" THEN "Y" ELSE IF c = "z" THEN "Z" ELSE c
Lower(c) ==
    IF c = "A" THEN "a" ELSE IF c = "B" THEN "b" ELSE IF c = "C" THEN "c"
    ELSE IF c = "D" THEN "d" ELSE IF c = "H" THEN "h" ELSE IF c = "X" THEN "x"
    ELSE IF c = "Y" THEN "y" ELSE IF c = "Z" THEN "z" ELSE c

\* --------------------------------------------------------- update_flags.py

\* title_case: split on - or _, capitalize() every part, join with a space
flags_title_case(s) ==
    [i \in 1..Len(s) |->
        IF s[i] \in {"-", "_"} THEN " "
        ELSE IF i = 1 \/ s[i - 1] \in {"-", "_"} THEN Upper(s[i])
        ELSE Lower(s[i])]

\* parse_flags, for the (flag name, help text) pairs it reads off the lines:
\* flags[key] = {...} keeps the place of a key's first line and the value of its last
flags_key(flag_name) == [i \in 1..Len(flag_name) |->
                            IF flag_name[i] = "-" THEN "_" ELSE flag_name[i]]
flags_entry(line) ==
    [key |-> flags_key(line.name), title |-> flags_title_case(line.name),
     help |-> line.help]
parse_flags(output) ==
    LET first == {i \in 1..Len(output) :
                     \A j \in 1..(i - 1) : output[j].name # output[i].name}
        last(i) == CHOOSE j \in i..Len(output) :
                       /\ output[j].name = output[i].name
                       /\ \A k \in (j + 1)..Len(output) : output[k].name # output[i].name
        Nth(n) == CHOOSE i \in first : Cardinality({m \in first : m < i}) = n - 1
    IN [n \in 1..Cardinality(first) |-> flags_entry(output[last(Nth(n))])]

\* format_new_key_block of update_flags.py
flags_format_new_key_block(key, value, indent) ==
    LET lines == JsonDumpsLines(key, value, indent)
        content == JoinLines(SubSeq(lines, 2, Len(lines) - 1))
    IN <<"\n">> \o Spaces(indent) \o <<START_MARKER>> \o <<"\n">>
       \o content \o <<",", "\n">>
       \o Spaces(indent) \o <<END_MARKER>>

\* a variant of flags_missing_keys without the `if key not in current_data`
flags_missing_keys_unfiltered(current_data, flags_data) == flags_data

\* update_file, lines 146-151: the entries of flags_data whose key is not in current_data
flags_missing_keys(current_data, flags_data) ==
    SelectSeq(flags_data, LAMBDA e : ~In(e.key, current_data))

\* a variant of flags_needs_comma that never asks for the comma
flags_needs_comma_never(content, i) == FALSE

\* update_file, lines 171-186: the backward scan decides on the comma
flags_needs_comma(content, i) ==
    IF i < 1 THEN FALSE
    ELSE IF content[i] = "," THEN FALSE
    ELSE IF content[i] = "{" \/ content[i] = "[" THEN FALSE
    ELSE TRUE

\* a variant of flags_insert_comma that puts the comma next to the brace
flags_insert_comma_at_brace(content, i) ==
    SubSeq(content, 1, Rfind(content, "}") - 1) \o <<",">>
    \o SubSeq(content, Rfind(content, "}"), Len(content))

\* update_file, lines 237-245: new_content.insert(i + 1, ",")
flags_insert_comma(content, i) ==
    SubSeq(content, 1, i) \o <<",">> \o SubSeq(content, i + 1, Len(content))

\* update_file, lines 248-250: the blocks and a newline go in before index idx
flags_splice(s_content, idx, full_insertion) ==
    SubSeq(s_content, 1, idx - 1) \o full_insertion \o <<"\n">>
    \o SubSeq(s_content, idx, Len(s_content))

\* a variant of flags_full_insertion that writes the blocks last key first
flags_full_insertion_reversed(missing_keys) ==
    JoinBlocks([n \in 1..Len(missing_keys) |->
        flags_format_new_key_block(missing_keys[Len(missing_keys) + 1 - n].key,
            [title |-> missing_keys[Len(missing_keys) + 1 - n].title,
             help |-> missing_keys[Len(missing_keys) + 1 - n].help],
            FLAGS_INDENT)])

\* update_file, lines 198-224
flags_full_insertion(missing_keys) ==
    JoinBlocks([n \in 1..Len(missing_keys) |->
        flags_format_new_key_block(missing_keys[n].key,
            [title |-> missing_keys[n].title, help |-> missing_keys[n].help],
            FLAGS_INDENT)])

\* update_file, lines 236-254: the text written, given the index i of the last
\* character that is no whitespace before the brace at last_brace_idx
flags_final_content(content, missing_keys, last_brace_idx, i) ==
    IF flags_needs_comma(content, i)
    THEN flags_splice(flags_insert_comma(content, i), last_brace_idx + 1,
                      flags_full_insertion(missing_keys))
    ELSE flags_splice(content, last_brace_idx, flags_full_insertion(missing_keys))

\* update_file, lines 164-254, given content.rfind("}")
flags_insert(content, missing_keys, last_brace_idx) ==
    IF last_brace_idx = 0 THEN [outcome |-> "no_brace", text |-> content]
    ELSE [outcome |-> "updated",
          text |-> flags_final_content(content, missing_keys, last_brace_idx,
                       SkipWsBack(content, last_brace_idx - 1))]

\* update_file, lines 153-254, given the missing keys
flags_update_missing(content, missing_keys) ==
    IF missing_keys = <<>> THEN [outcome |-> "no_missing", text |-> content]
    ELSE flags_insert(content, missing_keys, Rfind(content, "}"))

\* a variant of flags_update_loaded that takes a file json.loads rejects for
\* an empty object instead of returning
flags_update_loaded_lenient(content, flags_data, loaded) ==
    flags_update_missing(content,
        IF loaded.ok THEN flags_missing_keys(loaded.val, flags_data) ELSE flags_data)

\* update_file, lines 138-254, given what json.loads made of the content;
\* `key not in current_data` raises TypeError on a number or null
flags_update_loaded(content, flags_data, loaded) ==
    IF ~loaded.ok THEN [outcome |-> "skipped", text |-> content]
    ELSE IF flags_data # <<>> /\ ~IsIterable(loaded.val)
    THEN [outcome |-> "TypeError", text |-> content]
    ELSE flags_update_missing(content, flags_missing_keys(loaded.val, flags_data))

\* update_file of update_flags.py on the text of an existing file: what it
\* prints last (outcome) and the text on disk afterwards
flags_update_file(content, flags_data) ==
    flags_update_loaded(content, flags_data, json_loads(content))

\* ----------------------------------------------------- update_providers.py

\* title_case: s.replace("_", " ").title()
providers_title_case(s) ==
    LET r == [i \in 1..Len(s) |-> IF s[i] = "_" THEN " " ELSE s[i]]
        IsCased(c) == IsLower(c) \/ IsUpper(c)
    IN [i \in 1..Len(r) |->
           IF i = 1 \/ ~IsCased(r[i - 1]) THEN Upper(r[i]) ELSE Lower(r[i])]

\* format_new_key_block of update_providers.py
providers_format_new_key_block(key, value, indent) ==
    LET lines == JsonDumpsLines(key, value, indent)
        content == JoinLines(SubSeq(lines, 2, Len(lines) - 1))
    IN <<"\n">> \o Spaces(indent) \o <<START_MARKER>> \o <<"\n">>
       \o content \o <<",", "\n">>
       \o Spaces(indent) \o <<END_MARKER>>

\* update_file, line 114: {p["Name"]: p for p in fetched_providers}, in the
\* order of each name's first entry and with the value of its last
provider_map(fetched_providers) ==
    LET first == {i \in 1..Len(fetched_providers) :
                     \A j \in 1..(i - 1) :
                         fetched_providers[j].Name # fetched_providers[i].Name}
        last(i) == CHOOSE j \in i..Len(fetched_providers) :
                       /\ fetched_providers[j].Name = fetched_providers[i].Name
                       /\ \A k \in (j + 1)..Len(fetched_providers) :
                              fetched_providers[k].Name # fetched_providers[i].Name
        Nth(n) == CHOOSE i \in first : Cardinality({m \in first : m < i}) = n - 1
    IN [n \in 1..Cardinality(first) |-> fetched_providers[last(Nth(n))]]

\* update_file, lines 169-173: the fetched options (with a name) not in existing_options
providers_missing_options(existing_options, fetched_options) ==
    SelectSeq(fetched_options,
              LAMBDA opt : opt.Name # <<>> /\ ~In(opt.Name, existing_options))

\* update_file, lines 185-192: re.search(f'"{p_name}"\\s*:\\s*{{', text).start(),
\* 0 when nothing matches (p_name holds no character special to re)
providers_search(text, p_name) ==
    LET pat == <<"\"">> \o p_name \o <<"\"">>
        Hit(i) == /\ MatchAt(text, i, pat)
                  /\ LET c == SkipWs(text, i + Len(pat)) IN
                     /\ c <= Len(text)
                     /\ text[c] = ":"
                     /\ LET b == SkipWs(text, c + 1) IN
                        b <= Len(text) /\ text[b] = "{"
        S == {i \in 1..Len(text) : text[i] = "\"" /\ Hit(i)}
    IN IF S = {} THEN 0 ELSE CHOOSE i \in S : \A k \in S : i <= k

\* update_file, lines 194-208: the brace counter from start_idx.  At a "}" the
\* counter is (the "{" seen) - (the "}" seen) and found_start says a "{" was seen;
\* end_idx is the first "}" that brings it to 0, and 0 here when there is none
providers_find_end(text, start_idx) ==
    LET Count(c, i) == Cardinality({k \in start_idx..i : text[k] = c})
        S == {i \in start_idx..Len(text) :
                 /\ text[i] = "}"
                 /\ Count("{", i) >= 1
                 /\ Count("{", i) = Count("}", i)}
    IN IF S = {} THEN 0 ELSE CHOOSE i \in S : \A k \in S : i <= k

\* update_file, lines 215-240
providers_full_insertion(missing_options) ==
    JoinBlocks([n \in 1..Len(missing_options) |->
        providers_format_new_key_block(missing_options[n].Name,
            [title |-> providers_title_case(missing_options[n].Name),
             help |-> missing_options[n].Help],
            OPTION_INDENT)])

\* a variant of providers_splice whose second slice starts one character late
providers_splice_overwriting(updated_content, insertion_point, full_insertion) ==
    SubSeq(updated_content, 1, insertion_point - 1)
    \o full_insertion \o <<"\n", " ", " ", " ", " ">>
    \o SubSeq(updated_content, insertion_point + 1, Len(updated_content))

\* update_file, lines 243-248
providers_splice(updated_content, insertion_point, full_insertion) ==
    SubSeq(updated_content, 1, insertion_point - 1)
    \o full_insertion \o <<"\n", " ", " ", " ", " ">>
    \o SubSeq(updated_content, insertion_point, Len(updated_content))

\* update_file, lines 175-254: the text after the missing options went in
\* before end_idx, the same text when the provider or its end is not found
providers_insert(updated_content, missing_options, end_idx) ==
    IF end_idx = 0 THEN updated_content
    ELSE providers_splice(updated_content, end_idx,
                          providers_full_insertion(missing_options))

providers_locate(updated_content, missing_options, start_idx) ==
    IF start_idx = 0 THEN updated_content
    ELSE providers_insert(updated_content, missing_options,
                          providers_find_end(updated_content, start_idx))

providers_patch_missing(updated_content, p_name, missing_options) ==
    IF missing_options = <<>> THEN updated_content
    ELSE providers_locate(updated_content, missing_options,
                          providers_search(updated_content, p_name))

\* update_file, lines 163-254: one turn of the loop for the provider p_def on
\* the text so far; err is a TypeError raised by this turn
\* (existing_providers[p_name] on a list or str, `in` on a number or null)
providers_patch_one(updated_content, existing_providers, p_def) ==
    IF ~In(p_def.Name, existing_providers)
    THEN [err |-> FALSE, text |-> updated_content]
    ELSE IF ~IsDict(existing_providers)
    THEN [err |-> TRUE, text |-> updated_content]
    ELSE IF /\ \E n \in 1..Len(p_def.Options) : p_def.Options[n].Name # <<>>
            /\ ~IsIterable(Subscript(existing_providers, p_def.Name))
    THEN [err |-> TRUE, text |-> updated_content]
    ELSE [err |-> FALSE,
          text |-> providers_patch_missing(updated_content, p_def.Name,
                       providers_missing_options(
                           Subscript(existing_providers, p_def.Name),
                           p_def.Options))]

\* update_file, line 163: the loop over provider_map, on the progressively updated text
RECURSIVE providers_patch_all(_, _, _)
providers_patch_next(r, existing_providers, pmap) ==
    IF r.err THEN r ELSE providers_patch_all(r.text, existing_providers, pmap)

providers_patch_all(updated_content, existing_providers, pmap) ==
    IF pmap = <<>> THEN [err |-> FALSE, text |-> updated_content]
    ELSE providers_patch_next(
             providers_patch_one(updated_content, existing_providers, Head(pmap)),
             existing_providers, Tail(pmap))

PROVIDERS_KEY == <<"p", "r", "o", "v", "i", "d", "e", "r", "s">>

\* update_file, lines 266-272: the file is written when the text changed
providers_save(content, patched) ==
    IF patched.err THEN [outcome |-> "TypeError", text |-> content]
    ELSE IF patched.text # content
    THEN [outcome |-> "updated", text |-> patched.text]
    ELSE [outcome |-> "no_changes", text |-> content]

\* update_file, lines 114-272, given current_data["providers"]; the loop of
\* lines 117-135 raises TypeError when that is a number or null
providers_update_existing(content, pmap, existing_providers) ==
    IF pmap # <<>> /\ ~IsIterable(existing_providers)
    THEN [outcome |-> "TypeError", text |-> content]
    ELSE providers_save(content,
                        providers_patch_all(content, existing_providers, pmap))

\* update_file, lines 80-272, given what json.loads made of the content
providers_update_loaded(content, providers_data, loaded) ==
    IF ~loaded.ok THEN [outcome |-> "skipped", text |-> content]
    ELSE IF ~IsIterable(loaded.val)
    THEN [outcome |-> "TypeError", text |-> content]
    ELSE IF ~In(PROVIDERS_KEY, loaded.val)
    THEN [outcome |-> "no_providers_key", text |-> content]
    ELSE IF ~IsDict(loaded.val)
    THEN [outcome |-> "TypeError", text |-> content]
    ELSE providers_update_existing(content, provider_map(providers_data),
                                   Subscript(loaded.val, PROVIDERS_KEY))

\* update_file of update_providers.py on the text of an existing file: what it
\* prints last (outcome) and the text on disk afterwards
providers_update_file(content, providers_data) ==
    providers_update_loaded(content, providers_data, json_loads(content))

\* ------------------------------------------------------------------ inputs
\* The resource files a run may find and the answers rclone may give.

Langs == {"en", "tr"}

\* {"a": {"title":"A","help":"h"}}
F_EXAMPLE ==
    <<"{", "\"", "a", "\"", ":", " ", "{", "\"", "t", "i", "t", "l", "e",
      "\"", ":", "\"", "A", "\"", ",", "\"", "h", "e", "l", "p", "\"", ":",
      "\"", "h", "\"", "}", "}">>

\* {}
F_EMPTY ==
    <<"{", "}">>

\* {\n  "a": {\n    "title": "A",\n    "help": "h"\n  }\n}\n
F_PRETTY ==
    <<"{", "\n", " ", " ", "\"", "a", "\"", ":", " ", "{", "\n", " ", " ",
      " ", " ", "\"", "t", "i", "t", "l", "e", "\"", ":", " ", "\"", "A",
      "\"", ",", "\n", " ", " ", " ", " ", "\"", "h", "e", "l", "p", "\"",
      ":", " ", "\"", "h", "\"", "\n", " ", " ", "}", "\n", "}", "\n">>

\* { "b": 1 }\n
F_SPACED ==
    <<"{", " ", "\"", "b", "\"", ":", " ", "1", " ", "}", "\n">>

\* {"a": 
F_BAD ==
    <<"{", "\"", "a", "\"", ":", " ">>

\* 5
F_NUM ==
    <<"5">>

\* []
F_ARR ==
    <<"[", "]">>

\* {\n  "providers": {\n    "a": {\n      "x": {\n        "title": "X",\n        "help": "h"\n      }\n    }\n  }\n}\n
P_ONE ==
    <<"{", "\n", " ", " ", "\"", "p", "r", "o", "v", "i", "d", "e", "r", "s",
      "\"", ":", " ", "{", "\n", " ", " ", " ", " ", "\"", "a", "\"", ":",
      " ", "{", "\n", " ", " ", " ", " ", " ", " ", "\"", "x", "\"", ":",
      " ", "{", "\n", " ", " ", " ", " ", " ", " ", " ", " ", "\"", "t", "i",
      "t", "l", "e", "\"", ":", " ", "\"", "X", "\"", ",", "\n", " ", " ",
      " ", " ", " ", " ", " ", " ", "\"", "h", "e", "l", "p", "\"", ":", " ",
      "\"", "h", "\"", "\n", " ", " ", " ", " ", " ", " ", "}", "\n", " ",
      " ", " ", " ", "}", "\n", " ", " ", "}", "\n", "}", "\n">>

\* {"providers": {"a": {}}}
P_EMPTYPROV ==
    <<"{", "\"", "p", "r", "o", "v", "i", "d", "e", "r", "s", "\"", ":", " ",
      "{", "\"", "a", "\"", ":", " ", "{", "}", "}", "}">>

\* {"providers": {"a": {"b": {"title":"B","help":"h"}}, "b": {"x": {"title":"X","help":"h"}}}}
P_CLASH ==
    <<"{", "\"", "p", "r", "o", "v", "i", "d", "e", "r", "s", "\"", ":", " ",
      "{", "\"", "a", "\"", ":", " ", "{", "\"", "b", "\"", ":", " ", "{",
      "\"", "t", "i", "t", "l", "e", "\"", ":", "\"", "B", "\"", ",", "\"",
      "h", "e", "l", "p", "\"", ":", "\"", "h", "\"", "}", "}", ",", " ",
      "\"", "b", "\"", ":", " ", "{", "\"", "x", "\"", ":", " ", "{", "\"",
      "t", "i", "t", "l", "e", "\"", ":", "\"", "X", "\"", ",", "\"", "h",
      "e", "l", "p", "\"", ":", "\"", "h", "\"", "}", "}", "}", "}">>

\* {"providers": {"a": {"x": {"title":"X","help":"}"}}}}
P_BRACE ==
    <<"{", "\"", "p", "r", "o", "v", "i", "d", "e", "r", "s", "\"", ":", " ",
      "{", "\"", "a", "\"", ":", " ", "{", "\"", "x", "\"", ":", " ", "{",
      "\"", "t", "i", "t", "l", "e", "\"", ":", "\"", "X", "\"", ",", "\"",
      "h", "e", "l", "p", "\"", ":", "\"", "}", "\"", "}", "}", "}", "}">>

\* {"providers": {"a": {}, "b": {}}}
P_TWOEMPTY ==
    <<"{", "\"", "p", "r", "o", "v", "i", "d", "e", "r", "s", "\"", ":", " ", "{",
      "\"", "a", "\"", ":", " ", "{", "}", ",", " ", "\"", "b", "\"", ":", " ", "{",
      "}", "}", "}">>

\* {}
P_NOKEY ==
    <<"{", "}">>

\* {"providers": 
P_BAD ==
    <<"{", "\"", "p", "r", "o", "v", "i", "d", "e", "r", "s", "\"", ":", " ">>

\* 5
P_NUM ==
    <<"5">>

File(text) == [exists |-> TRUE, text |-> text]
NoFile == [exists |-> FALSE, text |-> <<>>]

FlagFiles ==
    {File(F_EXAMPLE), File(F_EMPTY), File(F_PRETTY), File(F_SPACED), File(F_BAD),
     File(F_NUM), File(F_ARR), NoFile}

ProviderFiles ==
    {File(P_ONE), File(P_EMPTYPROV), File(P_CLASH), File(P_BRACE), File(P_TWOEMPTY),
     File(P_NOKEY),
     File(P_BAD), File(P_NUM), NoFile}

\* what parse_flags reads off the lines of `rclone help flags`
HelpLine(name, help) == [name |-> name, help |-> help]
FlagOutputs ==
    { <<>>,
      <<HelpLine(<<"a">>, <<"h">>)>>,
      <<HelpLine(<<"a">>, <<"h">>), HelpLine(<<"b">>, <<"x", "}">>)>>,
      <<HelpLine(<<"b">>, <<"h">>), HelpLine(<<"c", "-", "d">>, <<"q", "\"">>)>> }

\* the "providers" list of `rclone rc config/providers`
Option(name, help) == [Name |-> name, Help |-> help]
Provider(name, options) == [Name |-> name, Options |-> options]
ProviderOutputs ==
    { <<Provider(<<"a">>, <<Option(<<"x">>, <<"h">>)>>)>>,
      <<Provider(<<"a">>, <<Option(<<"x">>, <<"h">>), Option(<<"y">>, <<"g">>)>>)>>,
      <<Provider(<<"a">>, <<Option(<<"b">>, <<"h">>), Option(<<"y">>, <<"g">>)>>),
        Provider(<<"b">>, <<Option(<<"x">>, <<"h">>), Option(<<"z">>, <<"}">>)>>)>>,
      <<Provider(<<"a">>, <<Option(<<"y">>, <<"h">>), Option(<<"y">>, <<"g">>)>>)>>,
      <<Provider(<<"c">>, <<Option(<<"x">>, <<"h">>)>>)>> }

\* the number of times the script is run
MaxRuns == 2

\* ------------------------------------------------------------------- state

VARIABLES
    script,     \* "flags" (update_flags.py) or "providers" (update_providers.py)
    files,      \* per language directory: rclone.json / rclone-providers.json
    pc,         \* "idle", "listing" (main's loop), "done", "exited", "crashed"
    fetched,    \* what get_flags / get_providers returned and printed
    todo,       \* the entries of os.listdir(I18N_DIR) main has not come to yet
    printed,    \* per language: the last line update_file printed in this run
    exit_code,  \* the exit status of the last run, -1 while none has ended
    runs,       \* the number of runs started
    disk0,      \* the files as the current run found them
    prev        \* what the run before the current one fetched

vars == <<script, files, pc, fetched, todo, printed, exit_code, runs, disk0, prev>>

NoFetch == [ok |-> FALSE, error |-> "", data |-> <<>>]

Init ==
    /\ \/ script = "flags" /\ files \in [Langs -> FlagFiles]
       \/ script = "providers" /\ files \in [Langs -> ProviderFiles]
    /\ pc = "idle"
    /\ fetched = NoFetch
    /\ todo = {}
    /\ printed = [l \in Langs |-> ""]
    /\ exit_code = -1
    /\ runs = 0
    /\ disk0 = files
    /\ prev = NoFetch

\* the script is not running and may be started
Stopped == pc \in {"idle", "done", "exited", "crashed"}

\* get_flags / get_providers: the errors caught and printed, the result None
FetchErrors ==
    IF script = "flags"
    THEN {"Error calling rclone", "rclone command not found"}
    ELSE {"Error calling rclone", "rclone command not found", "Unexpected error"}

\* a variant of main without the `if not ...: sys.exit(1)`
main_exits_never(result) == FALSE

\* main, `if not flags: sys.exit(1)` / `if not providers: sys.exit(1)`
main_exits(result) == ~result.ok \/ (script = "flags" /\ result.data = <<>>)

\* main up to the loop, entered with what the fetch returned
main_start(result) ==
    /\ Stopped
    /\ runs < MaxRuns
    /\ runs' = runs + 1
    /\ prev' = fetched
    /\ fetched' = result
    /\ disk0' = files
    /\ printed' = [l \in Langs |-> ""]
    /\ IF main_exits(result)
       THEN pc' = "exited" /\ exit_code' = 1 /\ todo' = {}
       ELSE pc' = "listing" /\ exit_code' = -1 /\ todo' = Langs
    /\ UNCHANGED <<script, files>>

\* a run whose fetch fails: rclone is not on PATH or exits non-zero
FetchFails ==
    \E e \in FetchErrors : main_start([ok |-> FALSE, error |-> e, data |-> <<>>])

\* a run whose fetch succeeds
FetchSucceeds ==
    \/ /\ script = "flags"
       /\ \E output \in FlagOutputs :
              main_start([ok |-> TRUE, error |-> "", data |-> parse_flags(output)])
    \/ /\ script = "providers"
       /\ \E providers \in ProviderOutputs :
              main_start([ok |-> TRUE, error |-> "", data |-> providers])

\* update_file of the running script
update_file(content, data) ==
    IF script = "flags" THEN flags_update_file(content, data)
    ELSE providers_update_file(content, data)

\* a variant of the loop body for an update_file that lets the JSONDecodeError through
main_updated_raising(l, r) ==
    /\ files' = [files EXCEPT ![l] = File(r.text)]
    /\ printed' = [printed EXCEPT ![l] = r.outcome]
    /\ IF r.outcome \in {"TypeError", "skipped"}
       THEN pc' = "crashed" /\ exit_code' = 1
       ELSE UNCHANGED <<pc, exit_code>>

\* main's loop body once update_file returned r (or raised) for the file of l
main_updated(l, r) ==
    /\ files' = [files EXCEPT ![l] = File(r.text)]
    /\ printed' = [printed EXCEPT ![l] = r.outcome]
    /\ IF r.outcome = "TypeError"
       THEN pc' = "crashed" /\ exit_code' = 1
       ELSE UNCHANGED <<pc, exit_code>>

\* main's loop body for the directory entry l: update_file when the file exists
ProcessEntry(l) ==
    /\ pc = "listing"
    /\ l \in todo
    /\ todo' = todo \ {l}
    /\ IF ~files[l].exists
       THEN UNCHANGED <<files, printed, pc, exit_code>>
       ELSE main_updated(l, update_file(files[l].text, fetched.data))
    /\ UNCHANGED <<script, fetched, runs, disk0, prev>>

\* main returns after the last directory entry
Finish ==
    /\ pc = "listing"
    /\ todo = {}
    /\ pc' = "done"
    /\ exit_code' = 0
    /\ UNCHANGED <<script, files, fetched, todo, printed, runs, disk0, prev>>

Next ==
    \/ FetchFails
    \/ FetchSucceeds
    \/ \E l \in Langs : ProcessEntry(l)
    \/ Finish

Spec == Init /\ [][Next]_vars

\* ------------------------------------------------------------ properties
\* What the claims speak of, read off the texts themselves.

\* update_file was called on the file of l in the current run
Called(l) == printed[l] # ""

Before(l) == disk0[l].text
After(l) == files[l].text

KeySet(v) == {v.keys[i] : i \in 1..Len(v.keys)}
Quoted(key) == <<"\"">> \o key \o <<"\"">>

\* the keys rclone reported: the flags, or the options of the provider p
FlagKeys == {fetched.data[n].key : n \in 1..Len(fetched.data)}
OptionKeys(p) == {p.Options[n].Name : n \in 1..Len(p.Options)} \ {<<>>}
FetchedProviders == {fetched.data[n] : n \in 1..Len(fetched.data)}

\* the local file of l parses as a JSON object / with an object "providers"
\* whose providers are objects
IsFlagsObject(l) ==
    /\ disk0[l].exists
    /\ json_loads(Before(l)).ok
    /\ json_loads(Before(l)).val.kind = "obj"
LocalProviders(l) == Subscript(json_loads(Before(l)).val, PROVIDERS_KEY)
IsProvidersObject(l) ==
    /\ IsFlagsObject(l)
    /\ PROVIDERS_KEY \in KeySet(json_loads(Before(l)).val)
    /\ LocalProviders(l).kind = "obj"
    /\ \A i \in 1..Len(LocalProviders(l).vals) : LocalProviders(l).vals[i].kind = "obj"

\* the keys rclone reported that the file of l lacks
MissingFlags(l) == FlagKeys \ KeySet(json_loads(Before(l)).val)
MissingOptions(l, p) == OptionKeys(p) \ KeySet(Subscript(LocalProviders(l), p.Name))
PresentProviders(l) == {p \in FetchedProviders : p.Name \in KeySet(LocalProviders(l))}

NothingMissing(l) ==
    IF script = "flags" THEN IsFlagsObject(l) /\ MissingFlags(l) = {}
    ELSE /\ IsFlagsObject(l)
         /\ PROVIDERS_KEY \in KeySet(json_loads(Before(l)).val) =>
                /\ IsProvidersObject(l)
                /\ \A p \in PresentProviders(l) : MissingOptions(l, p) = {}

\* C1: when the local file parses as JSON and no upstream key (flag, or option
\* of an already-present provider) is missing from it, the file on disk after
\* update_file is identical to the file before (stated by contraposition: a
\* file that update_file changed lacked a key).
C1_RoundTrip ==
    \A l \in Langs : (Called(l) /\ files[l] # disk0[l]) => ~NothingMissing(l)

\* C1 happens: update_file ran on a file that holds every key rclone reported
C1_Witness ==
    \E l \in Langs :
        /\ Called(l)
        /\ NothingMissing(l)
        /\ fetched.data # <<>>
        /\ script = "providers" => PresentProviders(l) # {}
        /\ printed[l] \in {"no_missing", "no_changes"}

\* ---- the inserted fragments of a text

StartMarkers(t) == {k \in 1..Len(t) : t[k] = START_MARKER}
EndMarkers(t) == {k \in 1..Len(t) : t[k] = END_MARKER}

\* the key of the fragment whose start marker is at k
FragmentKey(t, k) == ScanString(t, SkipWs(t, k + 1) + 1).s

\* the quotes that open or close a string, and the braces outside any string
QuotePos(t) == {j \in 1..Len(t) : t[j] = "\"" /\ ~Escaped(t, 1, j)}
Structural(t, c) ==
    LET Q == QuotePos(t) IN
    {j \in 1..Len(t) : t[j] = c /\ Cardinality({q \in Q : q < j}) % 2 = 0}
\* the number of objects open at index j
DepthAt(t, j) ==
    Cardinality({o \in Structural(t, "{") : o < j})
    - Cardinality({c \in Structural(t, "}") : c < j})
\* the opening brace of the innermost object that holds index k, 0 if none
EnclosingOpen(t, k) ==
    LET O == Structural(t, "{")
        C == Structural(t, "}")
        D(j) == Cardinality({o \in O : o < j}) - Cardinality({c \in C : c < j})
        S == {o \in O : o < k /\ D(o) = D(k) - 1}
    IN IF S = {} THEN 0 ELSE CHOOSE o \in S : \A x \in S : x <= o

\* no key occurs in two inserted fragments of the same object
NoKeyTwice(t) ==
    \A k1, k2 \in StartMarkers(t) :
        (k1 < k2 /\ FragmentKey(t, k1) = FragmentKey(t, k2))
            => EnclosingOpen(t, k1) # EnclosingOpen(t, k2)

\* C2: idempotence: after update_file ran twice with the same upstream data
\* (a provider's Options may name an option more than once), no key occurs in
\* more than one inserted fragment of the same object.
C2_InsertedOnce ==
    (runs = 2 /\ pc = "done" /\ prev.ok /\ prev = fetched)
        => \A l \in Langs : NoKeyTwice(After(l))

\* ---- the text with the comments and the trailing comma taken out

IsNoMarker(c) == c \notin {START_MARKER, END_MARKER}
StripMarkers(t) == SelectSeq(t, IsNoMarker)

RemoveAt(t, j) == SubSeq(t, 1, j - 1) \o SubSeq(t, j + 1, Len(t))

\* the text without the comma that is the last thing before the rightmost "}"
StripTrailingComma(t) ==
    LET j == SkipWsBack(t, Rfind(t, "}") - 1) IN
    IF j >= 1 /\ t[j] = "," THEN RemoveAt(t, j) ELSE t

\* C3: update_flags.update_file on a file that parses as a JSON object, with a
\* non-empty set of missing keys: the written text, with the comment-marker
\* lines and the single trailing comma before the closing brace removed, parses
\* as a JSON object whose keys are the original keys plus exactly the missing keys.
C3_StillParses ==
    \A l \in Langs :
        (script = "flags" /\ Called(l) /\ IsFlagsObject(l) /\ MissingFlags(l) # {})
            => LET r == json_loads(StripTrailingComma(StripMarkers(After(l)))) IN
               /\ r.ok
               /\ r.val.kind = "obj"
               /\ KeySet(r.val) = KeySet(json_loads(Before(l)).val) \cup MissingFlags(l)

\* C3 happens: two keys went into an object that already held one
C3_Witness ==
    \E l \in Langs :
        /\ script = "flags"
        /\ printed[l] = "updated"
        /\ IsFlagsObject(l)
        /\ KeySet(json_loads(Before(l)).val) # {}
        /\ Cardinality(MissingFlags(l)) = 2
        /\ \E k \in StartMarkers(After(l)) : TRUE

\* C4: in update_flags.update_file with a key missing, a comma is inserted
\* exactly when the last non-whitespace character before the rightmost "}" is
\* none of "," "{" "[", right after that character; the fragments are spliced
\* right before that same "}".  So a non-empty object gets its new entries
\* preceded by a comma and "{}" gets none.
C4_CommaRule ==
    \A l \in Langs :
        (script = "flags" /\ printed[l] = "updated") =>
            LET c == Before(l)
                n == After(l)
                brace == Rfind(c, "}")
                j == SkipWsBack(c, brace - 1)
                comma == j >= 1 /\ c[j] \notin {",", "{", "["}
                added == Len(n) - Len(c)
                head == IF comma
                        THEN SubSeq(c, 1, j) \o <<",">> \o SubSeq(c, j + 1, brace - 1)
                        ELSE SubSeq(c, 1, brace - 1)
            IN  /\ brace >= 1
                \* up to the brace: the original text, with the comma after c[j] or without
                /\ SubSeq(n, 1, Len(head)) = head
                \* then the fragments, the first a start marker and the last an end marker
                /\ MatchAt(n, Len(head) + 1,
                           <<"\n">> \o Spaces(FLAGS_INDENT) \o <<START_MARKER>>)
                /\ MatchAt(n, brace + added - 2, <<END_MARKER, "\n", "}">>)
                \* then that same brace and all that followed it
                /\ SubSeq(n, brace + added, Len(n)) = SubSeq(c, brace, Len(c))
                /\ (c = F_EMPTY) => ~comma
                /\ (json_loads(c).val.kind = "obj" /\ json_loads(c).val.keys # <<>>)
                       => comma

\* C4 happens with a comma that is not next to the brace, and without a comma
C4_Witness ==
    \E l \in Langs :
        /\ script = "flags"
        /\ printed[l] = "updated"
        /\ Before(l) = F_PRETTY
        /\ \E m \in Langs : printed[m] = "updated" /\ Before(m) = F_EMPTY

\* ---- the text with the inserted fragments taken out again

Last(S) == CHOOSE k \in S : \A x \in S : x <= k
First(S) == CHOOSE k \in S : \A x \in S : k <= x

\* t without its fragments: the last fragment (the newline and the indent
\* before its start marker, up to its end marker) goes first, together with the
\* padding that update_file put between the last fragment and the brace
RECURSIVE StripFragments(_, _, _)
StripFragments(t, indent, padding) ==
    IF StartMarkers(t) = {} THEN t
    ELSE LET k == Last(StartMarkers(t))
             q == First({e \in EndMarkers(t) : e > k})
             e == IF MatchAt(t, q + 1, padding \o <<"}">>) THEN q + Len(padding) ELSE q
         IN StripFragments(SubSeq(t, 1, k - indent - 2) \o SubSeq(t, e + 1, Len(t)),
                           indent, padding)

Unpatched(t) ==
    IF script = "flags" THEN StripFragments(t, FLAGS_INDENT, <<"\n">>)
    ELSE StripFragments(t, OPTION_INDENT, <<"\n", " ", " ", " ", " ">>)

\* C5: patching only adds text: removing the inserted comma and the inserted
\* fragment blocks (with their newline/indent padding) from the written text
\* yields the original text character for character.
C5_OnlyAdds ==
    \A l \in Langs :
        (Called(l) /\ files[l] # disk0[l]) =>
            \/ Unpatched(After(l)) = Before(l)
            \/ /\ script = "flags"
               /\ StripTrailingComma(Unpatched(After(l))) = Before(l)

\* C5 happens in both forms: with and without an inserted comma
C5_Witness ==
    \E l \in Langs :
        /\ printed[l] = "updated"
        /\ Cardinality(StartMarkers(After(l))) = 2
        /\ Unpatched(After(l)) # Before(l)
        /\ \E m \in Langs : printed[m] = "updated" /\ Unpatched(After(m)) = Before(m)

\* C6: for the providers file every key present upstream but absent locally is
\* spliced into the file at both levels: a provider rclone reports that the
\* local "providers" object lacks is inserted into that object.
C6_NewProviderInserted ==
    \A l \in Langs :
        (script = "providers" /\ Called(l) /\ IsProvidersObject(l)
            /\ printed[l] \in {"updated", "no_changes"}) =>
            \A p \in FetchedProviders \ PresentProviders(l) :
                \E i \in 1..Len(After(l)) : MatchAt(After(l), i, Quoted(p.Name))

\* C7: when the fetch fails (rclone absent from PATH, or a non-zero exit
\* status), the script prints the error and exits with a nonzero code before
\* any resource file is opened, so no resource file is modified in that run.
C7_FetchFailure ==
    (runs >= 1 /\ ~fetched.ok) =>
        /\ fetched.error # ""
        /\ pc = "exited"
        /\ exit_code # 0
        /\ \A l \in Langs : ~Called(l)
        /\ files = disk0

\* C7 happens: the fetch failed over a file that lacks a key
C7_Witness ==
    /\ runs >= 1
    /\ fetched.error = "rclone command not found"
    /\ pc = "exited"
    /\ \E l \in Langs : files[l] = File(F_EMPTY)

\* a resource file that is missing or does not parse as JSON
Malformed(l) == ~disk0[l].exists \/ ~json_loads(Before(l)).ok

\* C8: per-file skip-and-continue: a resource file that is missing or does not
\* parse as JSON is left unchanged and does not end the run; every file main
\* has come to holds what update_file makes of that file's own content and the
\* upstream data, whatever the other files are; a run that ends normally has
\* come to every file.
C8_SkipAndContinue ==
    /\ \A l \in Langs : Malformed(l) => files[l] = disk0[l]
    /\ \A l \in Langs :
           (pc \in {"listing", "done", "crashed"} /\ l \notin todo /\ disk0[l].exists)
               => /\ Called(l)
                  /\ After(l) = update_file(Before(l), fetched.data).text
    /\ pc = "crashed" => \E l \in Langs : printed[l] = "TypeError" /\ ~Malformed(l)
    /\ pc = "done" => todo = {}

\* C8 happens: a run ended that skipped a malformed file and patched another
C8_Witness ==
    /\ pc = "done"
    /\ \E l, m \in Langs :
           /\ disk0[l].exists
           /\ Malformed(l)
           /\ printed[l] = "skipped"
           /\ printed[m] = "updated"

\* ---- the place of a fragment in the providers file

\* the key whose value is the object opened at index o, <<>> if none
OwnerKey(t, o) ==
    LET c == SkipWsBack(t, o - 1)
        q == SkipWsBack(t, c - 1)
        before == {x \in QuotePos(t) : x < q}
    IN IF c >= 1 /\ t[c] = ":" /\ q >= 1 /\ t[q] = "\"" /\ before # {}
       THEN SubSeq(t, Last(before) + 1, q - 1)
       ELSE <<>>

\* a comma at index j of t that is followed by a closing brace
IsTrailingComma(t, j) ==
    /\ t[j] = ","
    /\ SkipWs(t, j + 1) <= Len(t)
    /\ t[SkipWs(t, j + 1)] = "}"

\* t without the commas that stand right before a closing brace
RECURSIVE StripTrailingCommas(_)
StripTrailingCommas(t) ==
    LET D == {j \in Structural(t, ",") : IsTrailingComma(t, j)} IN
    IF D = {} THEN t ELSE StripTrailingCommas(RemoveAt(t, Last(D)))

\* C9: the comma rule applies to nested provider objects too: when
\* update_providers.update_file inserts missing options into an existing
\* provider object that already holds an option, a comma separates the previous
\* last option's value from the first inserted entry, so that the text with the
\* comment markers and the trailing comma stripped parses as JSON.
C9_NestedComma ==
    \A l \in Langs :
        (/\ script = "providers"
         /\ printed[l] = "updated"
         /\ IsProvidersObject(l)
         /\ \A p \in PresentProviders(l) :
                MissingOptions(l, p) # {}
                    => Subscript(LocalProviders(l), p.Name).keys # <<>>)
        => /\ \A k \in StartMarkers(After(l)) :
                  After(l)[SkipWsBack(After(l), k - 1)] \in {",", END_MARKER}
           /\ json_loads(StripTrailingCommas(StripMarkers(After(l)))).ok

\* C10: for every existing provider with missing options, also when several
\* providers are patched in one run on the progressively updated text, the
\* insertion point is the closing brace that matches the opening brace of that
\* provider's own object inside "providers": every fragment lies directly in
\* the object of a provider that lacked its key, and in no other object.
C10_OwnBrace ==
    \A l \in Langs :
        (script = "providers" /\ printed[l] = "updated" /\ IsProvidersObject(l)) =>
            \A k \in StartMarkers(After(l)) :
                LET o == EnclosingOpen(After(l), k)
                    parent == EnclosingOpen(After(l), o)
                IN /\ o # 0
                   /\ parent # 0
                   /\ DepthAt(After(l), parent) = 1
                   /\ OwnerKey(After(l), parent) = PROVIDERS_KEY
                   /\ \E p \in PresentProviders(l) :
                          /\ OwnerKey(After(l), o) = p.Name
                          /\ FragmentKey(After(l), k) \in MissingOptions(l, p)

\* ---- the fragments of the inserted block, one by one

\* the n-th index of S in increasing order
NthOf(S, n) == CHOOSE k \in S : Cardinality({x \in S : x < k}) = n - 1

\* the upstream entries whose key is no top-level key of the file of l, in
\* upstream iteration order
MissingSeq(l) ==
    LET local == KeySet(json_loads(Before(l)).val) IN
    SelectSeq(fetched.data, LAMBDA e : e.key \notin local)

\* what stands between the start marker at s and the end marker at e is a
\* line break, the serialized entry "key": {title, help} of entry, a comma, a
\* line break and the indent
IsFragmentOf(t, s, e, entry) ==
    LET r == json_loads(<<"{">> \o SubSeq(t, s + 2, e - FLAGS_INDENT - 3) \o <<"}">>)
    IN /\ s < e
       /\ t[s + 1] = "\n"
       /\ MatchAt(t, e - FLAGS_INDENT - 2, <<",", "\n">> \o Spaces(FLAGS_INDENT))
       /\ r.ok
       /\ r.val.kind = "obj"
       /\ r.val.keys = <<entry.key>>
       /\ r.val.vals[1].kind = "obj"
       /\ r.val.vals[1].keys = << <<"t", "i", "t", "l", "e">>, <<"h", "e", "l", "p">> >>
       /\ r.val.vals[1].vals[1] = Val("str", <<>>, <<>>, entry.title)
       /\ r.val.vals[1].vals[2] = Val("str", <<>>, <<>>, entry.help)

\* C11: in update_flags.update_file the inserted block consists of exactly one
\* fragment per key of (upstream keys minus the local top-level keys), in
\* upstream iteration order and with no other key; each fragment is a start
\* marker line, the serialized "key": {title, help} entry followed by a comma,
\* and an end marker line; the start markers and the end markers are each as
\* many as the missing keys and strictly alternate start/end, with nothing but
\* a line break and the indent between one fragment and the next.
C11_OneFragmentPerKey ==
    \A l \in Langs :
        (script = "flags" /\ printed[l] = "updated" /\ IsFlagsObject(l)) =>
            LET t == After(l)
                S == StartMarkers(t)
                E == EndMarkers(t)
                missing == MissingSeq(l)
            IN /\ StartMarkers(Before(l)) = {} /\ EndMarkers(Before(l)) = {}
               /\ missing # <<>>
               /\ Cardinality(S) = Len(missing)
               /\ Cardinality(E) = Len(missing)
               /\ \A n \in 1..Len(missing) :
                      /\ IsFragmentOf(t, NthOf(S, n), NthOf(E, n), missing[n])
                      /\ n < Len(missing) =>
                             /\ NthOf(E, n) < NthOf(S, n + 1)
                             /\ SubSeq(t, NthOf(E, n) + 1, NthOf(S, n + 1) - 1)
                                    = <<"\n">> \o Spaces(FLAGS_INDENT)

\* C11 happens: of two upstream keys one file got both fragments, and another
\* file got only the second because it already held the first
C11_Witness ==
    \E l, m \in Langs :
        /\ script = "flags"
        /\ printed[l] = "updated" /\ IsFlagsObject(l)
        /\ printed[m] = "updated" /\ IsFlagsObject(m)
        /\ Len(fetched.data) = 2
        /\ Len(MissingSeq(l)) = 2
        /\ Cardinality(StartMarkers(After(l))) = 2
        /\ Len(MissingSeq(m)) = 1
        /\ MissingSeq(m)[1] = fetched.data[2]

\* ---- a file that an earlier run patched

HasMarkers(t) == StartMarkers(t) # {} \/ EndMarkers(t) # {}

\* the current run found the file of l with the markers of an earlier patch
PatchedBefore(l) == disk0[l].exists /\ HasMarkers(Before(l))

\* C12: once a run has inserted at least one key into a file, the file holds
\* marker lines and no longer parses as JSON, so every later run of the same
\* script skips that file and leaves it byte-identical whatever the upstream
\* data is then; a key that appears upstream only after the first patch is
\* never inserted.  Markers come from patches only: no file has them before
\* the first run ends.
C12_PatchedOnce ==
    \A l \in Langs :
        /\ runs <= 1 => ~PatchedBefore(l)
        /\ printed[l] = "updated" =>
               /\ HasMarkers(After(l))
               /\ ~json_loads(After(l)).ok
        /\ PatchedBefore(l) =>
               /\ ~json_loads(Before(l)).ok
               /\ files[l] = disk0[l]
               /\ Called(l) => printed[l] = "skipped"

\* C12 happens: a second run, whose upstream data holds a key the first run's
\* data lacked, came to a file the first run had patched
C12_Witness ==
    \E l \in Langs :
        /\ script = "flags"
        /\ runs = 2
        /\ prev.ok /\ fetched.ok
        /\ PatchedBefore(l)
        /\ printed[l] = "skipped"
        /\ \E n \in 1..Len(fetched.data) :
               /\ \A i \in 1..Len(prev.data) : prev.data[i].key # fetched.data[n].key
               /\ \A k \in StartMarkers(After(l)) :
                      FragmentKey(After(l), k) # fetched.data[n].key

====
